---- MODULE Spec2Model ----
(***************************************************************************)
(* Model of dbms/src/DataTypes/IDataType.cpp: the base logical type of the *)
(* columnar engine.  Three parts of the file are modelled:                 *)
(*   - the type object (domain pointer, getName, the text dispatch         *)
(*     facade, appendDomain, the operations that throw by default);        *)
(*   - updateAvgValueSizeHint, the size hint estimator;                    *)
(*   - getFileNameForStream, the substream path resolver.                  *)
(* Strings that are built or compared character by character are          *)
(* sequences of one-character strings.  Doubles are bit-exact: an odd      *)
(* significand of at most 53 bits and a binary exponent, every operation   *)
(* rounded to nearest, ties to even.                                       *)
(***************************************************************************)
EXTENDS Integers, Sequences, FiniteSets, TLC

VARIABLES
    family,          \* getFamilyName() of the concrete type
    domain,          \* IDataType::domain, NoDomain for nullptr
    chain,           \* domains the held domain has appended after itself
    appended,        \* history: arguments of appendDomain, in call order
    column,          \* the IColumn argument: its rows
    lastCall,        \* the last operation of the type object and its outcome
    avg_value_size_hint, \* the caller's size hint (double &)
    hint0,           \* history: the hint the session started with
    batch,           \* <<column.size(), column.byteSize()>> of the last batch
    prev_hint,       \* history: the hint before the last update
    updates,         \* number of updateAvgValueSizeHint calls so far
    column_name,     \* getFileNameForStream argument
    path,            \* getFileNameForStream argument
    stream_name,     \* getFileNameForStream result
    pc               \* position of the getFileNameForStream caller

typeVars == <<family, domain, chain, appended, column, lastCall>>
hintVars == <<avg_value_size_hint, hint0, batch, prev_hint, updates>>
streamVars == <<column_name, path, stream_name, pc>>
vars == <<family, domain, chain, appended, column, lastCall,
          avg_value_size_hint, hint0, batch, prev_hint, updates,
          column_name, path, stream_name, pc>>

(***************************************************************************)
(* Bounds                                                                  *)
(***************************************************************************)
MaxNameLen == 3
MaxPathLen == 3
MaxFieldLen == 1
MaxColumnRows == 2
MaxUpdates == 2
MaxSteadyUpdates == 6

(***************************************************************************)
(* Strings                                                                 *)
(***************************************************************************)
RECURSIVE SeqsUpTo(_, _)
SeqsUpTo(S, n) ==
    IF n = 0 THEN {<<>>}
    ELSE LET shorter == SeqsUpTo(S, n - 1)
         IN shorter \cup {Append(s, x) : s \in {t \in shorter : Len(t) = n - 1}, x \in S}

Digits == <<"0", "1", "2", "3", "4", "5", "6", "7", "8", "9">>
HexDigits == <<"0", "1", "2", "3", "4", "5", "6", "7", "8", "9", "A", "B", "C", "D", "E", "F">>

RECURSIVE toString(_)
toString(n) ==
    IF n < 10 THEN <<Digits[n + 1]>>
    ELSE Append(toString(n \div 10), Digits[(n % 10) + 1])

WordChars == {"a", "n", "x", "_"}
NameChars == {"x", "n", "."}
FieldChars == {"a", "."}

CharCode(c) ==
    CASE c = "." -> 46
      [] c = "%" -> 37
      [] c = "-" -> 45
      [] OTHER -> 0

escapeChar(c) ==
    IF c \in WordChars THEN <<c>>
    ELSE <<"%", HexDigits[(CharCode(c) \div 16) + 1], HexDigits[(CharCode(c) % 16) + 1]>>

RECURSIVE escapeForFileName(_)
escapeForFileName(s) ==
    IF s = <<>> THEN <<>>
    ELSE escapeChar(Head(s)) \o escapeForFileName(Tail(s))

FirstDot(s) ==
    IF \E i \in 1..Len(s) : s[i] = "."
    THEN CHOOSE i \in 1..Len(s) : s[i] = "." /\ \A j \in 1..(i - 1) : s[j] # "."
    ELSE 0

extractTableName(nested_name) ==
    IF FirstDot(nested_name) = 0 THEN nested_name
    ELSE SubSeq(nested_name, 1, FirstDot(nested_name) - 1)

(***************************************************************************)
(* Substream paths                                                         *)
(***************************************************************************)
Substream(t, f) == [type |-> t, tuple_element_name |-> f]
NullMap == Substream("NullMap", <<>>)
ArraySizes == Substream("ArraySizes", <<>>)
ArrayElements == Substream("ArrayElements", <<>>)
DictionaryKeys == Substream("DictionaryKeys", <<>>)
TupleElement(f) == Substream("TupleElement", f)

FieldNames == SeqsUpTo(FieldChars, MaxFieldLen) \ {<<>>}
ColumnNames == SeqsUpTo(NameChars, MaxNameLen) \ {<<>>}
Substreams == {NullMap, ArraySizes, ArrayElements, DictionaryKeys}
                  \cup {TupleElement(f) : f \in FieldNames}
SubstreamPaths == SeqsUpTo(Substreams, MaxPathLen)

\* Mutant: a tuple element is separated by a plain dot.
RECURSIVE WalkPath_plain_dot(_, _, _, _)
WalkPath_plain_dot(p, i, array_level, name) ==
    IF i > Len(p) THEN name
    ELSE LET elem == p[i] IN
         IF elem.type = "NullMap"
         THEN WalkPath_plain_dot(p, i + 1, array_level, name \o <<".", "n", "u", "l", "l">>)
         ELSE IF elem.type = "ArraySizes"
         THEN WalkPath_plain_dot(p, i + 1, array_level,
                                 name \o <<".", "s", "i", "z", "e">> \o toString(array_level))
         ELSE IF elem.type = "ArrayElements"
         THEN WalkPath_plain_dot(p, i + 1, array_level + 1, name)
         ELSE IF elem.type = "TupleElement"
         THEN WalkPath_plain_dot(p, i + 1, array_level,
                                 name \o <<".">> \o escapeForFileName(elem.tuple_element_name))
         ELSE IF elem.type = "DictionaryKeys"
         THEN WalkPath_plain_dot(p, i + 1, array_level, name \o <<".", "d", "i", "c", "t">>)
         ELSE WalkPath_plain_dot(p, i + 1, array_level, name)

RECURSIVE WalkPath(_, _, _, _)
WalkPath(p, i, array_level, name) ==
    IF i > Len(p) THEN name
    ELSE LET elem == p[i] IN
         IF elem.type = "NullMap"
         THEN WalkPath(p, i + 1, array_level, name \o <<".", "n", "u", "l", "l">>)
         ELSE IF elem.type = "ArraySizes"
         THEN WalkPath(p, i + 1, array_level,
                       name \o <<".", "s", "i", "z", "e">> \o toString(array_level))
         ELSE IF elem.type = "ArrayElements"
         THEN WalkPath(p, i + 1, array_level + 1, name)
         ELSE IF elem.type = "TupleElement"
         THEN WalkPath(p, i + 1, array_level,
                       name \o <<"%", "2", "E">> \o escapeForFileName(elem.tuple_element_name))
         ELSE IF elem.type = "DictionaryKeys"
         THEN WalkPath(p, i + 1, array_level, name \o <<".", "d", "i", "c", "t">>)
         ELSE WalkPath(p, i + 1, array_level, name)

\* Mutant: the sharing of the size stream is not limited to paths of length 1.
is_sizes_of_nested_type_any_length(name, p) ==
    /\ Len(p) >= 1
    /\ p[1].type = "ArraySizes"
    /\ extractTableName(name) # name

is_sizes_of_nested_type(name, p) ==
    /\ Len(p) = 1
    /\ p[1].type = "ArraySizes"
    /\ extractTableName(name) # name

getFileNameForStream(name, p) ==
    WalkPath(p, 1, 0,
             escapeForFileName(IF is_sizes_of_nested_type(name, p)
                               THEN extractTableName(name) ELSE name))

(***************************************************************************)
(* Doubles.  A finite non-negative double is <<m, e>>: m is its odd        *)
(* significand as a bit sequence, most significant bit first, of at most   *)
(* MantissaBits bits, and the value is m * 2^e; zero is <<<<>>, 0>>.       *)
(* Sizes, averages and hints are never negative, and their exponents stay  *)
(* far from the overflow and subnormal ranges.  Every operation computes   *)
(* the exact result and rounds it to nearest, ties to even.                *)
(***************************************************************************)
MantissaBits == 53

Zeros(k) == [i \in 1..k |-> 0]

Front(b) == SubSeq(b, 1, Len(b) - 1)

\* The two halves of a bit sequence of two bits or more.
LeftHalf(b) == SubSeq(b, 1, Len(b) \div 2)

RightHalf(b) == SubSeq(b, (Len(b) \div 2) + 1, Len(b))

\* The operations on bit sequences split the sequence in halves, so that
\* their nesting is logarithmic in the length.
RECURSIVE LeadingZeros(_)
LeadingZeros(b) ==
    IF b = <<>> THEN 0
    ELSE IF Len(b) = 1 THEN 1 - b[1]
    ELSE LET l == LeadingZeros(LeftHalf(b))
         IN IF l = Len(b) \div 2 THEN l + LeadingZeros(RightHalf(b)) ELSE l

RECURSIVE TrailingZeros(_)
TrailingZeros(b) ==
    IF b = <<>> THEN 0
    ELSE IF Len(b) = 1 THEN 1 - b[1]
    ELSE LET r == TrailingZeros(RightHalf(b))
         IN IF r = Len(b) - (Len(b) \div 2) THEN r + TrailingZeros(LeftHalf(b)) ELSE r

StripLeading(b) == SubSeq(b, LeadingZeros(b) + 1, Len(b))

StripTrailing(b) == SubSeq(b, 1, Len(b) - TrailingZeros(b))

\* The canonical form of bits * 2^e.
Dyadic(bits, e) ==
    LET b == StripTrailing(StripLeading(bits))
    IN IF b = <<>> THEN <<<<>>, 0>>
       ELSE <<b, e + (Len(StripLeading(bits)) - Len(b))>>

RECURSIVE IntBits(_)
IntBits(n) == IF n = 0 THEN <<>> ELSE Append(IntBits(n \div 2), n % 2)

\* static_cast<double>(n) of an integer below 2^31: exact.
FromInt(n) == Dyadic(IntBits(n), 0)

PadTo(b, n) == Zeros(n - Len(b)) \o b

\* x + y + c of two bit sequences of one length: <<sum of that length, carry out>>.
RECURSIVE AddCarry(_, _, _)
AddCarry(x, y, c) ==
    IF x = <<>> THEN <<<<>>, c>>
    ELSE IF Len(x) = 1 THEN <<<<(x[1] + y[1] + c) % 2>>, (x[1] + y[1] + c) \div 2>>
    ELSE LET low == AddCarry(RightHalf(x), RightHalf(y), c)
             high0 == AddCarry(LeftHalf(x), LeftHalf(y), 0)
             high1 == AddCarry(LeftHalf(x), LeftHalf(y), 1)
         IN IF low[2] = 0 THEN <<high0[1] \o low[1], high0[2]>>
            ELSE <<high1[1] \o low[1], high1[2]>>

AddBits(x, y) ==
    LET n == IF Len(x) > Len(y) THEN Len(x) ELSE Len(y)
        sum == AddCarry(PadTo(x, n), PadTo(y, n), 0)
    IN <<sum[2]>> \o sum[1]

\* x - y - c of two bit sequences of one length: <<difference, borrow out>>.
RECURSIVE SubBorrow(_, _, _)
SubBorrow(x, y, c) ==
    IF x = <<>> THEN <<<<>>, c>>
    ELSE IF Len(x) = 1
    THEN <<<<(x[1] - y[1] - c + 2) % 2>>, IF x[1] - y[1] - c < 0 THEN 1 ELSE 0>>
    ELSE LET low == SubBorrow(RightHalf(x), RightHalf(y), c)
             high0 == SubBorrow(LeftHalf(x), LeftHalf(y), 0)
             high1 == SubBorrow(LeftHalf(x), LeftHalf(y), 1)
         IN IF low[2] = 0 THEN <<high0[1] \o low[1], high0[2]>>
            ELSE <<high1[1] \o low[1], high1[2]>>

\* x - y for x >= y.
SubBits(x, y) ==
    LET n == IF Len(x) > Len(y) THEN Len(x) ELSE Len(y)
    IN SubBorrow(PadTo(x, n), PadTo(y, n), 0)[1]

\* x < y as numbers, for two bit sequences of one length.
RECURSIVE LessSameLength(_, _)
LessSameLength(x, y) ==
    IF x = y THEN FALSE
    ELSE IF Len(x) = 1 THEN x[1] < y[1]
    ELSE IF LeftHalf(x) = LeftHalf(y) THEN LessSameLength(RightHalf(x), RightHalf(y))
    ELSE LessSameLength(LeftHalf(x), LeftHalf(y))

LessBits(x, y) ==
    LET n == IF Len(x) > Len(y) THEN Len(x) ELSE Len(y)
    IN LessSameLength(PadTo(x, n), PadTo(y, n))

RECURSIVE MulBits(_, _)
MulBits(x, y) ==
    IF y = <<>> THEN <<>>
    ELSE LET rest == Append(MulBits(x, Front(y)), 0)
         IN IF y[Len(y)] = 1 THEN AddBits(rest, x) ELSE rest

MinExp(a, b) ==
    IF a[1] = <<>> THEN b[2]
    ELSE IF b[1] = <<>> THEN a[2]
    ELSE IF a[2] < b[2] THEN a[2] ELSE b[2]

\* The significand of a at the exponent e <= a[2].
BitsAt(a, e) == IF a[1] = <<>> THEN <<>> ELSE a[1] \o Zeros(a[2] - e)

\* Exact arithmetic on dyadic numbers.
XLess(a, b) == LessBits(BitsAt(a, MinExp(a, b)), BitsAt(b, MinExp(a, b)))

XLeq(a, b) == ~XLess(b, a)

XAdd(a, b) == Dyadic(AddBits(BitsAt(a, MinExp(a, b)), BitsAt(b, MinExp(a, b))), MinExp(a, b))

XSub(a, b) == Dyadic(SubBits(BitsAt(a, MinExp(a, b)), BitsAt(b, MinExp(a, b))), MinExp(a, b))

\* a * k for an integer k >= 0.
XTimes(a, k) == Dyadic(MulBits(a[1], IntBits(k)), a[2])

XShift(a, k) == IF a[1] = <<>> THEN a ELSE <<a[1], a[2] + k>>

\* Round to nearest, ties to even, to MantissaBits significant bits.
RoundToDouble(a) ==
    IF Len(a[1]) <= MantissaBits THEN a
    ELSE LET m == a[1]
             top == SubSeq(m, 1, MantissaBits)
             guard == m[MantissaBits + 1]
             sticky == \E i \in (MantissaBits + 2)..Len(m) : m[i] = 1
             up == guard = 1 /\ (sticky \/ top[MantissaBits] = 1)
         IN Dyadic(IF up THEN AddBits(top, <<1>>) ELSE top, a[2] + Len(m) - MantissaBits)

DLess(a, b) == XLess(a, b)

DLeq(a, b) == ~DLess(b, a)

DAdd(a, b) == RoundToDouble(XAdd(a, b))

\* a * static_cast<double>(k) for a small integer k >= 0.
DTimes(a, k) == RoundToDouble(XTimes(a, k))

\* Long division of the bit sequence by d, with the remainder r < d of the
\* bits before it: <<quotient of the same length, remainder>>.
RECURSIVE LongDiv(_, _, _)
LongDiv(bits, d, r) ==
    IF bits = <<>> THEN <<<<>>, r>>
    ELSE IF Len(bits) = 1 THEN <<<<(2 * r + bits[1]) \div d>>, (2 * r + bits[1]) % d>>
    ELSE LET high == LongDiv(LeftHalf(bits), d, r)
             low == LongDiv(RightHalf(bits), d, high[2])
         IN <<high[1] \o low[1], low[2]>>

\* Bits of the quotient computed below the last bit of the dividend: enough
\* for a full significand, a guard bit and a divisor below 2^30.
DivisionBits == MantissaBits + 32

\* a / static_cast<double>(d) for an integer d with 0 < d < 2^30; a last bit
\* 1 stands for a remainder that is not zero.
DDivInt(a, d) ==
    LET div == LongDiv(a[1] \o Zeros(DivisionBits), d, 0)
    IN IF div[2] = 0
       THEN RoundToDouble(Dyadic(div[1], a[2] - DivisionBits))
       ELSE RoundToDouble(Dyadic(Append(div[1], 1), a[2] - DivisionBits - 1))

DMin(a, b) == IF DLess(b, a) THEN b ELSE a

DMax(a, b) == IF DLess(a, b) THEN b ELSE a

\* The double nearest to n / d.
Dbl(n, d) == DDivInt(FromInt(n), d)

(***************************************************************************)
(* Size hint estimator                                                     *)
(***************************************************************************)
MinRowsExclusive == 10
HintCap == FromInt(1024)

\* static_cast<double>(column.byteSize()) / column_size
current_avg_value_size(column_size, byte_size) == DDivInt(FromInt(byte_size), column_size)

\* Mutant: the hint also decays when the average is between hint / 2 and hint.
updateAvgValueSizeHint_eager_decay(column_size, byte_size, hint) ==
    IF column_size > MinRowsExclusive
    THEN LET avg == current_avg_value_size(column_size, byte_size) IN
         IF DLess(hint, avg)
         THEN DMin(HintCap, avg)
         ELSE IF DLess(avg, hint)
         THEN DDivInt(DAdd(avg, DTimes(hint, 3)), 4)
         ELSE hint
    ELSE hint

\* Mutant: a batch of exactly 10 rows already updates the hint.
updateAvgValueSizeHint_ten_rows(column_size, byte_size, hint) ==
    IF column_size >= MinRowsExclusive
    THEN LET avg == current_avg_value_size(column_size, byte_size) IN
         IF DLess(hint, avg)
         THEN DMin(HintCap, avg)
         ELSE IF DLess(DTimes(avg, 2), hint)
         THEN DDivInt(DAdd(avg, DTimes(hint, 3)), 4)
         ELSE hint
    ELSE hint

\* Mutant: the growing branch takes the average without the cap.
updateAvgValueSizeHint_no_cap(column_size, byte_size, hint) ==
    IF column_size > MinRowsExclusive
    THEN LET avg == current_avg_value_size(column_size, byte_size) IN
         IF DLess(hint, avg)
         THEN avg
         ELSE IF DLess(DTimes(avg, 2), hint)
         THEN DDivInt(DAdd(avg, DTimes(hint, 3)), 4)
         ELSE hint
    ELSE hint

updateAvgValueSizeHint(column_size, byte_size, hint) ==
    IF column_size > MinRowsExclusive
    THEN LET avg == current_avg_value_size(column_size, byte_size) IN
         IF DLess(hint, avg)
         THEN DMin(HintCap, avg)
         ELSE IF DLess(DTimes(avg, 2), hint)
         THEN DDivInt(DAdd(avg, DTimes(hint, 3)), 4)
         ELSE hint
    ELSE hint

\* Initial hints of a deserialization session and the batches it reads:
\* <<column.size(), column.byteSize()>>.
HintValues ==
    {FromInt(0), Dbl(1, 10), FromInt(1), FromInt(3), FromInt(16), FromInt(1024),
     FromInt(2000)}

Batches ==
    {<<10, 10000>>, <<11, 0>>, <<11, 44>>, <<16, 64>>, <<16, 8>>, <<11, 11264>>, <<12, 18000>>,
     <<16, 48000>>, <<19, 22>>, <<152, 193>>, <<11, 10>>}

BatchAvg(b) == current_avg_value_size(b[1], b[2])


(***************************************************************************)
(* The type object                                                         *)
(***************************************************************************)
NoDomain == "nullptr"
Families == {"UInt32", "FixedString"}
Domains == {"IPv4", "IPv6", "Alias"}
CustomSerializationDomains == {"IPv4", "IPv6"}
FormatFamilies == {"Escaped", "Quoted", "CSV", "Plain", "JSON", "XML"}
Directions == {"serialize", "deserialize"}
RowNums == {0, 1}
FormatSettings == {"default", "tuned"}
ConstSizes == {0, 5}
Fields == {0, 7}
DefaultField == 0
ParsedValues == {42}
HandlerErrors == {"CANNOT_PARSE_TEXT", "CANNOT_WRITE_TO_OSTREAM"}

\* One invocation of a virtual method made by an operation of the facade.
Invocation(target, object, method, args) ==
    [target |-> target, object |-> object, method |-> method, args |-> args]

\* What a text handler did: how it ended and the column as it left it.
Effect(outcome, code, col) == [outcome |-> outcome, code |-> code, column |-> col]

NoEffect == Effect("none", "none", <<>>)

Call(op, args, invoked, outcome, code, result) ==
    [op |-> op, args |-> args, invoked |-> invoked, outcome |-> outcome,
     code |-> code, result |-> result, effect |-> NoEffect]

\* A call of the text facade: it has no statement after the handler's call,
\* so it ends as the handler ends, an exception of the handler included.
TextCall(op, args, invoked, effect) ==
    [op |-> op, args |-> args, invoked |-> invoked, outcome |-> effect.outcome,
     code |-> effect.code, result |-> <<>>, effect |-> effect]

NoCall == Call(<<"constructor">>, <<>>, <<>>, "return", "none", <<>>)

\* IDataTypeDomain::getName and IDataTypeDomain::appendDomain of the held domain.
DomainGetName(d, ch) == <<d>> \o ch

DomainAppendDomain(ch, new_domain) == Append(ch, new_domain)

doGetName(fam) == <<fam>>

getNameInvoked(fam, dom) ==
    IF dom # NoDomain
    THEN <<Invocation("domain", dom, <<"getName">>, <<>>)>>
    ELSE <<Invocation("type", fam, <<"doGetName">>, <<>>)>>

\* Mutant: the name never comes from the domain.
getName_family_only(fam, dom, ch) == doGetName(fam)

getName(fam, dom, ch) ==
    IF dom # NoDomain
    THEN DomainGetName(dom, ch)
    ELSE doGetName(fam)

\* Mutant: any attached domain is taken to have the capability.
ser_domain_unchecked(dom) == dom

\* dynamic_cast<const IDataTypeDomainCustomSerialization *>(domain.get())
ser_domain(dom) ==
    IF dom # NoDomain /\ dom \in CustomSerializationDomains THEN dom ELSE NoDomain

TextDispatch(fam, dom, direction, format, args) ==
    IF ser_domain(dom) # NoDomain
    THEN <<Invocation("domain", ser_domain(dom), <<direction, format>>, args)>>
    ELSE <<Invocation("type", fam, <<direction, format>>, args)>>

SerializeArgs(col, row_num, settings) ==
    [column |-> col, row_num |-> row_num, settings |-> settings]

DeserializeArgs(col, settings) ==
    [column |-> col, row_num |-> -1, settings |-> settings]

\* The handlers are virtual methods of the concrete type and of the domain.
\* A serialize handler gets the column as const IColumn &: it returns or
\* throws, and the column stays as it is.
SerializeEffects(col) ==
    {Effect("return", "none", col)} \cup {Effect("throw", c, col) : c \in HandlerErrors}

\* A deserialize handler gets the caller's IColumn &: it returns after it
\* has appended the value it read, or throws, before or after the append.
DeserializeEffects(col) ==
    {Effect("throw", c, col) : c \in HandlerErrors}
        \cup (IF Len(col) < MaxColumnRows
              THEN {Effect("return", "none", Append(col, v)) : v \in ParsedValues}
                       \cup {Effect("throw", c, Append(col, v)) :
                                 c \in HandlerErrors, v \in ParsedValues}
              ELSE {})

\* Mutant: every default failure carries the logical error code.
ThrowingCall_one_code(op, args, code) ==
    Call(op, args, getNameInvoked(family, domain), "throw", "LOGICAL_ERROR",
         getName(family, domain, chain))

ThrowingCall(op, args, code) ==
    Call(op, args, getNameInvoked(family, domain), "throw", code,
         getName(family, domain, chain))


(***************************************************************************)
(* Operations of the type object                                           *)
(***************************************************************************)
CallGetName ==
    /\ lastCall' = Call(<<"getName">>, <<>>, getNameInvoked(family, domain),
                        "return", "none", getName(family, domain, chain))
    /\ UNCHANGED <<family, domain, chain, appended, column>>
    /\ UNCHANGED <<hintVars, streamVars>>

\* Mutant: the new domain replaces the held one.
CallAppendDomain_replace ==
    \E new_domain \in Domains :
        /\ \A i \in 1..Len(appended) : appended[i] # new_domain
        /\ domain' = new_domain
        /\ chain' = chain
        /\ lastCall' = Call(<<"appendDomain">>, <<new_domain>>, <<>>,
                            "return", "none", <<>>)
        /\ appended' = Append(appended, new_domain)
        /\ UNCHANGED <<family, column>>
        /\ UNCHANGED <<hintVars, streamVars>>

\* Mutant: with a domain already held, the new domain is dropped.
CallAppendDomain_drop ==
    \E new_domain \in Domains :
        /\ \A i \in 1..Len(appended) : appended[i] # new_domain
        /\ IF domain = NoDomain
           THEN domain' = new_domain
           ELSE domain' = domain
        /\ chain' = chain
        /\ lastCall' = Call(<<"appendDomain">>, <<new_domain>>, <<>>,
                            "return", "none", <<>>)
        /\ appended' = Append(appended, new_domain)
        /\ UNCHANGED <<family, column>>
        /\ UNCHANGED <<hintVars, streamVars>>

CallAppendDomain ==
    \E new_domain \in Domains :
        /\ \A i \in 1..Len(appended) : appended[i] # new_domain
        /\ IF domain = NoDomain
           THEN /\ domain' = new_domain
                /\ chain' = chain
                /\ lastCall' = Call(<<"appendDomain">>, <<new_domain>>, <<>>,
                                    "return", "none", <<>>)
           ELSE /\ domain' = domain
                /\ chain' = DomainAppendDomain(chain, new_domain)
                /\ lastCall' = Call(<<"appendDomain">>, <<new_domain>>,
                                    <<Invocation("domain", domain, <<"appendDomain">>,
                                                 <<new_domain>>)>>,
                                    "return", "none", <<>>)
        /\ appended' = Append(appended, new_domain)
        /\ UNCHANGED <<family, column>>
        /\ UNCHANGED <<hintVars, streamVars>>

createColumnConst(size, field) == [data |-> <<field>>, size |-> size]

CallCreateColumnConst ==
    \E size \in ConstSizes, field \in Fields :
        /\ lastCall' = Call(<<"createColumnConst">>, <<size, field>>,
                            <<Invocation("type", family, <<"createColumn">>, <<>>)>>,
                            "return", "none", createColumnConst(size, field))
        /\ UNCHANGED <<family, domain, chain, appended, column>>
        /\ UNCHANGED <<hintVars, streamVars>>

CallCreateColumnConstWithDefaultValue ==
    \E size \in ConstSizes :
        /\ lastCall' = Call(<<"createColumnConstWithDefaultValue">>, <<size>>,
                            <<Invocation("type", family, <<"getDefault">>, <<>>),
                              Invocation("type", family, <<"createColumn">>, <<>>)>>,
                            "return", "none", createColumnConst(size, DefaultField))
        /\ UNCHANGED <<family, domain, chain, appended, column>>
        /\ UNCHANGED <<hintVars, streamVars>>

CallInsertDefaultInto ==
    /\ Len(column) < MaxColumnRows
    /\ column' = Append(column, DefaultField)
    /\ lastCall' = Call(<<"insertDefaultInto">>, <<>>, <<>>, "return", "none", <<>>)
    /\ UNCHANGED <<family, domain, chain, appended>>
    /\ UNCHANGED <<hintVars, streamVars>>

CallPromoteNumericType ==
    /\ lastCall' = ThrowingCall(<<"promoteNumericType">>, <<>>,
                                "DATA_TYPE_CANNOT_BE_PROMOTED")
    /\ UNCHANGED <<family, domain, chain, appended, column>>
    /\ UNCHANGED <<hintVars, streamVars>>

CallSerializeBinaryBulk ==
    \E offset \in RowNums, limit \in RowNums :
        /\ lastCall' = ThrowingCall(<<"serializeBinaryBulk">>,
                                    <<column, offset, limit>>,
                                    "MULTIPLE_STREAMS_REQUIRED")
        /\ UNCHANGED <<family, domain, chain, appended, column>>
        /\ UNCHANGED <<hintVars, streamVars>>

CallDeserializeBinaryBulk ==
    \E limit \in RowNums :
        /\ lastCall' = ThrowingCall(<<"deserializeBinaryBulk">>, <<column, limit>>,
                                    "MULTIPLE_STREAMS_REQUIRED")
        /\ UNCHANGED <<family, domain, chain, appended, column>>
        /\ UNCHANGED <<hintVars, streamVars>>

CallGetSizeOfValueInMemory ==
    /\ lastCall' = ThrowingCall(<<"getSizeOfValueInMemory">>, <<>>, "LOGICAL_ERROR")
    /\ UNCHANGED <<family, domain, chain, appended, column>>
    /\ UNCHANGED <<hintVars, streamVars>>

CallSerializeAsTextEscaped ==
    \E row_num \in RowNums, settings \in FormatSettings,
       effect \in SerializeEffects(column) :
        /\ lastCall' = TextCall(<<"serialize", "Escaped">>,
                                SerializeArgs(column, row_num, settings),
                                TextDispatch(family, domain, "serialize", "Escaped",
                                             SerializeArgs(column, row_num, settings)),
                                effect)
        /\ column' = effect.column
        /\ UNCHANGED <<family, domain, chain, appended>>
        /\ UNCHANGED <<hintVars, streamVars>>

CallSerializeAsTextQuoted ==
    \E row_num \in RowNums, settings \in FormatSettings,
       effect \in SerializeEffects(column) :
        /\ lastCall' = TextCall(<<"serialize", "Quoted">>,
                                SerializeArgs(column, row_num, settings),
                                TextDispatch(family, domain, "serialize", "Quoted",
                                             SerializeArgs(column, row_num, settings)),
                                effect)
        /\ column' = effect.column
        /\ UNCHANGED <<family, domain, chain, appended>>
        /\ UNCHANGED <<hintVars, streamVars>>

CallSerializeAsTextCSV ==
    \E row_num \in RowNums, settings \in FormatSettings,
       effect \in SerializeEffects(column) :
        /\ lastCall' = TextCall(<<"serialize", "CSV">>,
                                SerializeArgs(column, row_num, settings),
                                TextDispatch(family, domain, "serialize", "CSV",
                                             SerializeArgs(column, row_num, settings)),
                                effect)
        /\ column' = effect.column
        /\ UNCHANGED <<family, domain, chain, appended>>
        /\ UNCHANGED <<hintVars, streamVars>>

CallSerializeAsText ==
    \E row_num \in RowNums, settings \in FormatSettings,
       effect \in SerializeEffects(column) :
        /\ lastCall' = TextCall(<<"serialize", "Plain">>,
                                SerializeArgs(column, row_num, settings),
                                TextDispatch(family, domain, "serialize", "Plain",
                                             SerializeArgs(column, row_num, settings)),
                                effect)
        /\ column' = effect.column
        /\ UNCHANGED <<family, domain, chain, appended>>
        /\ UNCHANGED <<hintVars, streamVars>>

CallSerializeAsTextJSON ==
    \E row_num \in RowNums, settings \in FormatSettings,
       effect \in SerializeEffects(column) :
        /\ lastCall' = TextCall(<<"serialize", "JSON">>,
                                SerializeArgs(column, row_num, settings),
                                TextDispatch(family, domain, "serialize", "JSON",
                                             SerializeArgs(column, row_num, settings)),
                                effect)
        /\ column' = effect.column
        /\ UNCHANGED <<family, domain, chain, appended>>
        /\ UNCHANGED <<hintVars, streamVars>>

CallSerializeAsTextXML ==
    \E row_num \in RowNums, settings \in FormatSettings,
       effect \in SerializeEffects(column) :
        /\ lastCall' = TextCall(<<"serialize", "XML">>,
                                SerializeArgs(column, row_num, settings),
                                TextDispatch(family, domain, "serialize", "XML",
                                             SerializeArgs(column, row_num, settings)),
                                effect)
        /\ column' = effect.column
        /\ UNCHANGED <<family, domain, chain, appended>>
        /\ UNCHANGED <<hintVars, streamVars>>

CallDeserializeAsTextEscaped ==
    \E settings \in FormatSettings, effect \in DeserializeEffects(column) :
        /\ lastCall' = TextCall(<<"deserialize", "Escaped">>,
                                DeserializeArgs(column, settings),
                                TextDispatch(family, domain, "deserialize", "Escaped",
                                             DeserializeArgs(column, settings)),
                                effect)
        /\ column' = effect.column
        /\ UNCHANGED <<family, domain, chain, appended>>
        /\ UNCHANGED <<hintVars, streamVars>>

CallDeserializeAsTextQuoted ==
    \E settings \in FormatSettings, effect \in DeserializeEffects(column) :
        /\ lastCall' = TextCall(<<"deserialize", "Quoted">>,
                                DeserializeArgs(column, settings),
                                TextDispatch(family, domain, "deserialize", "Quoted",
                                             DeserializeArgs(column, settings)),
                                effect)
        /\ column' = effect.column
        /\ UNCHANGED <<family, domain, chain, appended>>
        /\ UNCHANGED <<hintVars, streamVars>>

CallDeserializeAsTextCSV ==
    \E settings \in FormatSettings, effect \in DeserializeEffects(column) :
        /\ lastCall' = TextCall(<<"deserialize", "CSV">>,
                                DeserializeArgs(column, settings),
                                TextDispatch(family, domain, "deserialize", "CSV",
                                             DeserializeArgs(column, settings)),
                                effect)
        /\ column' = effect.column
        /\ UNCHANGED <<family, domain, chain, appended>>
        /\ UNCHANGED <<hintVars, streamVars>>

CallDeserializeAsTextJSON ==
    \E settings \in FormatSettings, effect \in DeserializeEffects(column) :
        /\ lastCall' = TextCall(<<"deserialize", "JSON">>,
                                DeserializeArgs(column, settings),
                                TextDispatch(family, domain, "deserialize", "JSON",
                                             DeserializeArgs(column, settings)),
                                effect)
        /\ column' = effect.column
        /\ UNCHANGED <<family, domain, chain, appended>>
        /\ UNCHANGED <<hintVars, streamVars>>

(***************************************************************************)
(* Operations of a deserialization session and of a stream name caller     *)
(***************************************************************************)
CallUpdateAvgValueSizeHint ==
    \E b \in Batches :
        /\ updates < MaxUpdates
        /\ avg_value_size_hint' = updateAvgValueSizeHint(b[1], b[2], avg_value_size_hint)
        /\ prev_hint' = avg_value_size_hint
        /\ batch' = b
        /\ updates' = updates + 1
        /\ UNCHANGED hint0
        /\ UNCHANGED <<typeVars, streamVars>>

\* The same, fed by a reader whose batches all have more than 10 rows and
\* one per-value size.
CallUpdateAvgValueSizeHintSteady ==
    \E b \in Batches :
        /\ updates < MaxSteadyUpdates
        /\ b[1] > MinRowsExclusive
        /\ updates > 0 => BatchAvg(b) = BatchAvg(batch)
        /\ avg_value_size_hint' = updateAvgValueSizeHint(b[1], b[2], avg_value_size_hint)
        /\ prev_hint' = avg_value_size_hint
        /\ batch' = b
        /\ updates' = updates + 1
        /\ UNCHANGED hint0
        /\ UNCHANGED <<typeVars, streamVars>>

CallGetFileNameForStream ==
    /\ pc = "call"
    /\ stream_name' = getFileNameForStream(column_name, path)
    /\ pc' = "done"
    /\ UNCHANGED <<column_name, path>>
    /\ UNCHANGED <<typeVars, hintVars>>

(***************************************************************************)
(* Specifications                                                          *)
(***************************************************************************)
TypeInit ==
    /\ family \in Families
    /\ domain = NoDomain
    /\ chain = <<>>
    /\ appended = <<>>
    /\ column = <<>>
    /\ lastCall = NoCall

TypeIdle ==
    /\ family = "UInt32"
    /\ domain = NoDomain
    /\ chain = <<>>
    /\ appended = <<>>
    /\ column = <<>>
    /\ lastCall = NoCall

HintInit ==
    /\ avg_value_size_hint \in HintValues
    /\ hint0 = avg_value_size_hint
    /\ prev_hint = avg_value_size_hint
    /\ batch = <<0, 0>>
    /\ updates = 0

HintIdle ==
    /\ avg_value_size_hint = FromInt(0)
    /\ hint0 = FromInt(0)
    /\ prev_hint = FromInt(0)
    /\ batch = <<0, 0>>
    /\ updates = 0

StreamInit ==
    /\ column_name \in ColumnNames
    /\ path \in SubstreamPaths
    /\ stream_name = <<>>
    /\ pc = "call"

StreamIdle ==
    /\ column_name = <<"x">>
    /\ path = <<>>
    /\ stream_name = <<>>
    /\ pc = "idle"

Init == TypeInit /\ HintIdle /\ StreamIdle

Next ==
    \/ CallGetName
    \/ CallAppendDomain
    \/ CallCreateColumnConst
    \/ CallCreateColumnConstWithDefaultValue
    \/ CallInsertDefaultInto
    \/ CallPromoteNumericType
    \/ CallSerializeBinaryBulk
    \/ CallDeserializeBinaryBulk
    \/ CallGetSizeOfValueInMemory
    \/ CallSerializeAsTextEscaped
    \/ CallSerializeAsTextQuoted
    \/ CallSerializeAsTextCSV
    \/ CallSerializeAsText
    \/ CallSerializeAsTextJSON
    \/ CallSerializeAsTextXML
    \/ CallDeserializeAsTextEscaped
    \/ CallDeserializeAsTextQuoted
    \/ CallDeserializeAsTextCSV
    \/ CallDeserializeAsTextJSON

Spec == Init /\ [][Next]_vars

InitHint == TypeIdle /\ HintInit /\ StreamIdle

NextHint == CallUpdateAvgValueSizeHint

SpecHint == InitHint /\ [][NextHint]_vars

NextSteady == CallUpdateAvgValueSizeHintSteady

SpecSteady == InitHint /\ [][NextSteady]_vars

InitStream == TypeIdle /\ HintIdle /\ StreamInit

NextStream == CallGetFileNameForStream

SpecStream == InitStream /\ [][NextStream]_vars


(***************************************************************************)
(* Substream path resolver: claims                                         *)
(***************************************************************************)
ArrayElementsBefore(p, i) ==
    Cardinality({j \in 1..(i - 1) : p[j].type = "ArrayElements"})

MarkerSuffix(p, i) ==
    CASE p[i].type = "NullMap" -> <<".", "n", "u", "l", "l">>
      [] p[i].type = "DictionaryKeys" -> <<".", "d", "i", "c", "t">>
      [] p[i].type = "TupleElement" ->
             <<"%", "2", "E">> \o escapeForFileName(p[i].tuple_element_name)
      [] p[i].type = "ArrayElements" -> <<>>
      [] p[i].type = "ArraySizes" ->
             <<".", "s", "i", "z", "e">> \o toString(ArrayElementsBefore(p, i))

RECURSIVE SuffixesFrom(_, _)
SuffixesFrom(p, i) ==
    IF i > Len(p) THEN <<>> ELSE MarkerSuffix(p, i) \o SuffixesFrom(p, i + 1)

InNestedGroup(name) == extractTableName(name) # name

ExpectedBase(name, p) ==
    IF p = <<ArraySizes>> /\ InNestedGroup(name) THEN extractTableName(name) ELSE name

\* C1: the stream name is the escaped base followed, in path order, by one
\* suffix per marker (.null, .dict, %2E + escaped field, nothing for
\* ArrayElements, .size<k> with k the number of ArrayElements markers before
\* it); the base is the nested group name exactly when the path is
\* [ArraySizes] and the column belongs to a nested group, else the column
\* name. An empty path gives the bare escaped name, [ArrayElements,
\* ArraySizes] on "x" gives "x.size1", and siblings of one nested group share
\* the name for [ArraySizes].
C1_StreamNameGrammar ==
    pc = "done" =>
        /\ stream_name = escapeForFileName(ExpectedBase(column_name, path))
                             \o SuffixesFrom(path, 1)
        /\ path = <<>> => stream_name = escapeForFileName(column_name)
        /\ (Len(path) > 1 \/ ~InNestedGroup(column_name)) =>
               SubSeq(stream_name, 1, Len(escapeForFileName(column_name)))
                   = escapeForFileName(column_name)
        /\ (column_name = <<"x">> /\ path = <<ArrayElements, ArraySizes>>) =>
               stream_name = <<"x", ".", "s", "i", "z", "e", "1">>
        /\ (path = <<ArraySizes>> /\ InNestedGroup(column_name)) =>
               \A sibling \in ColumnNames :
                   (InNestedGroup(sibling)
                    /\ extractTableName(sibling) = extractTableName(column_name))
                       => getFileNameForStream(sibling, path) = stream_name

C1_Witness ==
    /\ pc = "done"
    /\ column_name = <<"n", ".", "x">>
    /\ path = <<ArraySizes>>
    /\ stream_name = <<"n", ".", "s", "i", "z", "e", "0">>

\* C2: a tuple field stream and a flat column named <struct>.<field> get the
\* same stream name, for the paths [TupleElement(f)] / [] and
\* [ArrayElements, TupleElement(f)] / [ArrayElements].
C2_TupleFieldCollidesWithDottedName ==
    pc = "done" =>
        /\ (Len(path) = 1 /\ path[1].type = "TupleElement") =>
               stream_name = getFileNameForStream(
                   column_name \o <<".">> \o path[1].tuple_element_name, <<>>)
        /\ (Len(path) = 2 /\ path[1] = ArrayElements /\ path[2].type = "TupleElement") =>
               stream_name = getFileNameForStream(
                   column_name \o <<".">> \o path[2].tuple_element_name,
                   <<ArrayElements>>)

C2_Witness ==
    /\ pc = "done"
    /\ column_name = <<"x">>
    /\ path = <<ArrayElements, TupleElement(<<"a">>)>>
    /\ stream_name = <<"x", "%", "2", "E", "a">>


(***************************************************************************)
(* Type object: claims                                                     *)
(***************************************************************************)
IsTextOp(op) == Len(op) = 2 /\ op[1] \in Directions /\ op[2] \in FormatFamilies

\* A call of the text operation of this direction and family can be made.
Offered(direction, format) == ENABLED (Next /\ lastCall'.op = <<direction, format>>)

ExpectedTextHandler ==
    IF domain # NoDomain /\ domain \in CustomSerializationDomains
    THEN Invocation("domain", domain, lastCall.op, lastCall.args)
    ELSE Invocation("type", family, lastCall.op, lastCall.args)

\* C3 as stated: every one of the six families has a serialize and a
\* deserialize operation on the facade, and each call invokes exactly one
\* handler, the domain's custom one if the held domain has the capability,
\* else the physical type's, with the arguments unchanged.
C3_AllTwelveOperations ==
    /\ \A direction \in Directions, format \in FormatFamilies :
           Offered(direction, format)
    /\ IsTextOp(lastCall.op) => lastCall.invoked = <<ExpectedTextHandler>>

OfferedOperations ==
    \A direction \in Directions, format \in FormatFamilies :
        Offered(direction, format) <=>
            (direction = "serialize" \/ format \in {"Escaped", "Quoted", "CSV", "JSON"})

\* One step of the text facade: the only handler invoked is the one the
\* held domain selects, it gets the caller's column, as it was before the
\* call, and the caller's other arguments, the call ends as the handler
\* ends, and the column afterwards is the column as the handler left it.
TextDispatchStep ==
    IsTextOp(lastCall'.op) =>
        LET call == lastCall'
            handler == IF domain # NoDomain /\ domain \in CustomSerializationDomains
                       THEN Invocation("domain", domain, call.op, call.args)
                       ELSE Invocation("type", family, call.op, call.args)
        IN /\ Len(call.invoked) = 1
           /\ call.invoked[1] = handler
           /\ call.args.column = column
           /\ call.outcome = call.effect.outcome
           /\ call.code = call.effect.code
           /\ call.outcome = "return" <=> call.code = "none"
           /\ column' = call.effect.column
           /\ call.op[1] = "serialize" => column' = column
           /\ UNCHANGED <<family, domain, chain, appended>>

\* C3 amended: the facade has a serialize operation for all six families
\* and a deserialize operation for escaped, quoted, CSV and JSON only (none
\* for plain and XML); each call of these ten invokes exactly one handler,
\* the domain's custom one if the held domain has the capability, else the
\* physical type's of the same family and direction, arguments unchanged:
\* the handler works on the caller's own column, and what it does to the
\* column and how it ends is what the call does.
C3_TenOperationsDispatch ==
    /\ []OfferedOperations
    /\ [][TextDispatchStep]_vars

C3_Witness ==
    /\ lastCall.op = <<"deserialize", "JSON">>
    /\ domain = "Alias"
    /\ chain # <<>>
    /\ lastCall.invoked[1].target = "type"
    /\ lastCall.outcome = "return"
    /\ lastCall.args.column = <<0>>
    /\ column = <<0, 42>>

\* C4: getName() returns the physical family name when no domain is
\* attached and the name produced by the attached domain, not the family
\* name path, when one is; the call changes no state.
C4_GetName ==
    [][lastCall'.op = <<"getName">> =>
          /\ domain = NoDomain =>
                 /\ lastCall'.result = <<family>>
                 /\ lastCall'.invoked = <<Invocation("type", family, <<"doGetName">>, <<>>)>>
          /\ domain # NoDomain =>
                 /\ lastCall'.result = DomainGetName(domain, chain)
                 /\ lastCall'.invoked = <<Invocation("domain", domain, <<"getName">>, <<>>)>>
          /\ lastCall'.outcome = "return"
          /\ UNCHANGED <<family, domain, chain, appended, column>>
          /\ UNCHANGED <<hintVars, streamVars>>]_vars

C4_Witness ==
    /\ lastCall.op = <<"getName">>
    /\ domain # NoDomain
    /\ lastCall.invoked[1].target = "domain"
    /\ lastCall.result # <<family>>

DomainTargets(call) ==
    {call.invoked[i].object : i \in {j \in 1..Len(call.invoked) : call.invoked[j].target = "domain"}}

\* C5 as stated: after k >= 1 appendDomain calls the domain the type holds,
\* which getName() and the text dispatch consult, is the most recently
\* appended one.
C5_HeadIsMostRecent ==
    Len(appended) >= 1 => domain = appended[Len(appended)]

\* C5 amended: after k >= 1 appendDomain calls the domain the type holds,
\* which getName() and the text dispatch consult, is the first appended
\* domain; every later one was handed to it.
C5_HeadIsFirstAppended ==
    Len(appended) >= 1 =>
        /\ domain = appended[1]
        /\ (lastCall.op = <<"getName">> \/ IsTextOp(lastCall.op)) =>
               DomainTargets(lastCall) \subseteq {appended[1]}
        /\ lastCall.op = <<"getName">> => DomainTargets(lastCall) = {appended[1]}

C5_Witness ==
    /\ Len(appended) >= 2
    /\ lastCall.op = <<"serialize", "Escaped">>
    /\ DomainTargets(lastCall) = {appended[1]}
    /\ appended[2] # appended[1]

AttachedChain == IF domain = NoDomain THEN <<>> ELSE <<domain>> \o chain

AppendOnlyStep ==
    IF appended' # appended
    THEN /\ lastCall'.op = <<"appendDomain">>
         /\ appended' = Append(appended, lastCall'.args[1])
         /\ AttachedChain' = Append(AttachedChain, lastCall'.args[1])
         /\ domain = NoDomain =>
                /\ domain' = lastCall'.args[1]
                /\ lastCall'.invoked = <<>>
         /\ domain # NoDomain =>
                /\ domain' = domain
                /\ lastCall'.invoked =
                       <<Invocation("domain", domain, <<"appendDomain">>, lastCall'.args)>>
    ELSE /\ domain' = domain
         /\ chain' = chain
         /\ lastCall'.op # <<"appendDomain">>

\* C6: the chain is append-only: a type starts with no domain, the first
\* appendDomain sets the held domain, every later one leaves it in place
\* and hands the new domain to it exactly once, nothing is removed,
\* replaced or reordered, and no other operation changes the chain.
C6_AppendOnly ==
    /\ domain = NoDomain
    /\ [][AppendOnlyStep]_vars

C6_Witness ==
    /\ Len(appended) = 3
    /\ AttachedChain = appended
    /\ lastCall.op = <<"createColumnConst">>

FailingOps ==
    {<<"promoteNumericType">>, <<"serializeBinaryBulk">>, <<"deserializeBinaryBulk">>,
     <<"getSizeOfValueInMemory">>}

ExpectedErrorCode(op) ==
    CASE op = <<"promoteNumericType">> -> "DATA_TYPE_CANNOT_BE_PROMOTED"
      [] op = <<"getSizeOfValueInMemory">> -> "LOGICAL_ERROR"
      [] OTHER -> "MULTIPLE_STREAMS_REQUIRED"

\* C7: the base serializeBinaryBulk, deserializeBinaryBulk,
\* getSizeOfValueInMemory and promoteNumericType always fail, with
\* MultipleStreamsRequired, LogicalError and CannotBePromoted, for every
\* argument and with or without a domain, and leave the column and the
\* domain chain unchanged.
C7_BaseOperationsFail ==
    [][lastCall'.op \in FailingOps =>
          /\ lastCall'.outcome = "throw"
          /\ lastCall'.code = ExpectedErrorCode(lastCall'.op)
          /\ UNCHANGED <<domain, chain, appended, column>>]_vars

C7_Witness ==
    /\ lastCall.op = <<"deserializeBinaryBulk">>
    /\ lastCall.outcome = "throw"
    /\ lastCall.code = "MULTIPLE_STREAMS_REQUIRED"
    /\ domain # NoDomain
    /\ column # <<>>


(***************************************************************************)
(* Size hint estimator: claims                                             *)
(***************************************************************************)
\* The least n with gap * (3/4)^n <= s in exact arithmetic, counted up to
\* MaxSteadyUpdates + 1.
RECURSIVE DecaySteps(_, _, _)
DecaySteps(gap, s, n) ==
    IF XLeq(gap, s) \/ n > MaxSteadyUpdates THEN n
    ELSE DecaySteps(XShift(XTimes(gap, 3), -2), s, n + 1)

\* |a - b| in exact arithmetic.
XDist(a, b) == IF XLess(a, b) THEN XSub(b, a) ELSE XSub(a, b)

AtRest ==
    updateAvgValueSizeHint(batch[1], batch[2], avg_value_size_hint) = avg_value_size_hint

\* C8 as stated: batches of more than 10 rows and one per-value size s bring
\* the hint to min(s, 1024) within a small bounded number of updates, from
\* every initial hint: the hint is min(s, 1024) after MaxSteadyUpdates updates,
\* and as soon as a further batch of the feed no longer changes it.
C8_ConvergesToMin ==
    (updates = MaxSteadyUpdates \/ (updates >= 1 /\ AtRest)) =>
        avg_value_size_hint = DMin(BatchAvg(batch), HintCap)

\* C8 amended: under such a feed the hint is min(s, 1024) after the first
\* update, and stays there, only from an initial hint below s; from an
\* initial hint h0 with s <= h0 <= 2s it never changes; from h0 > 2s each
\* update takes the hint h to (s + 3h)/4, so its distance to s shrinks to 3/4
\* (within a relative 2^-50 of double rounding), until the hint is at most
\* 2s, which takes at most one update more than the exact 3/4 decay needs;
\* the hint then stays at that value, which is above s.
C8_SteadyFeed ==
    updates >= 1 =>
        LET s == BatchAvg(batch)
            twice == XShift(s, 1)
            h == avg_value_size_hint
        IN /\ DLess(hint0, s) => h = DMin(s, FromInt(1024))
           /\ (DLeq(s, hint0) /\ DLeq(hint0, twice)) => h = hint0
           /\ DLess(twice, hint0) =>
                  /\ DLess(s, h)
                  /\ DLeq(h, hint0)
                  /\ DLess(twice, prev_hint) =>
                         /\ DLess(h, prev_hint)
                         /\ XLeq(XShift(XDist(XShift(XSub(h, s), 2),
                                              XTimes(XSub(prev_hint, s), 3)), 50),
                                 XTimes(XSub(prev_hint, s), 3))
                  /\ DLeq(prev_hint, twice) => h = prev_hint
                  /\ updates >= DecaySteps(XSub(hint0, s), s, 0) + 1 => DLeq(h, twice)

C8_Witness ==
    /\ updates = 5
    /\ hint0 = FromInt(16)
    /\ batch = <<11, 44>>
    /\ prev_hint = avg_value_size_hint
    /\ DLess(FromInt(4), avg_value_size_hint)
    /\ DLess(avg_value_size_hint, FromInt(8))

\* C9: one call leaves the hint unchanged when the batch has at most 10
\* rows; otherwise, with avg = byte size / row count, the hint becomes
\* min(avg, 1024) when avg > hint, (avg + 3 * hint) / 4 when 2 * avg < hint,
\* and stays unchanged when avg <= hint <= 2 * avg. Nothing but the hint
\* changes.
C9_UpdateRule ==
    [][updates' # updates =>
          LET rows == batch'[1]
              bytes == batch'[2]
              old == avg_value_size_hint
              new == avg_value_size_hint'
          IN /\ rows <= 10 => new = old
             /\ rows >= 11 =>
                    LET avg == DDivInt(FromInt(bytes), rows) IN
                    /\ DLess(old, avg) =>
                           new = (IF DLess(avg, FromInt(1024)) THEN avg ELSE FromInt(1024))
                    /\ (DLeq(avg, old) /\ DLess(DTimes(avg, 2), old)) =>
                           new = DDivInt(DAdd(avg, DTimes(old, 3)), 4)
                    /\ (DLeq(avg, old) /\ DLeq(old, DTimes(avg, 2))) => new = old
             /\ UNCHANGED hint0
             /\ UNCHANGED <<typeVars, streamVars>>]_vars

C9_Witness ==
    /\ updates >= 1
    /\ batch = <<11, 44>>
    /\ prev_hint = FromInt(16)
    /\ avg_value_size_hint = FromInt(13)

GrowingUpdate ==
    /\ updates >= 1
    /\ batch[1] > 10
    /\ DLess(prev_hint, BatchAvg(batch))

\* C10 as stated: when a batch of more than 10 rows has an average above
\* the hint, the new hint is never lower than the old one and is at most
\* 1024, also for hints above 1024; the hint never exceeds
\* max(initial hint, 1024).
C10_GrowsAndCaps ==
    /\ GrowingUpdate =>
           /\ DLeq(prev_hint, avg_value_size_hint)
           /\ DLeq(avg_value_size_hint, FromInt(1024))
    /\ DLeq(avg_value_size_hint, DMax(hint0, FromInt(1024)))

\* C10 amended: when a batch of more than 10 rows has an average above the
\* hint, the new hint is at most 1024; it is above the old hint when the old
\* hint was below 1024, and it is 1024, lower than the old hint, when the
\* old hint was above 1024; the hint never exceeds max(initial hint, 1024).
C10_CapsAndGrowsBelowCap ==
    /\ GrowingUpdate =>
           /\ DLeq(avg_value_size_hint, FromInt(1024))
           /\ DLess(prev_hint, FromInt(1024)) => DLess(prev_hint, avg_value_size_hint)
           /\ prev_hint = FromInt(1024) => avg_value_size_hint = FromInt(1024)
           /\ DLess(FromInt(1024), prev_hint) => avg_value_size_hint = FromInt(1024)
    /\ DLeq(avg_value_size_hint, DMax(hint0, FromInt(1024)))

C10_Witness ==
    /\ updates >= 1
    /\ prev_hint = FromInt(2000)
    /\ batch = <<16, 48000>>
    /\ avg_value_size_hint = FromInt(1024)


====
